---- MODULE Spec2Model ----
(***************************************************************************)
(* Model of scripts/add_enum_to_def.py: the enum CSV -> definitions YAML   *)
(* pipeline (check_null, pull_enum, get_enum_*, construct_enum_def,        *)
(* construct_enum_term_yaml_entry, validate_csv_columns, process_enums).   *)
(*                                                                         *)
(* Python values are tagged records [kind, val]; a str is the sequence of  *)
(* its characters, so that strip() and lower() are computed.  A DataFrame  *)
(* is [columns, rows]; a row is a function from column name to cell.  A    *)
(* call returns [exc, val]: exc = "none" for a normal return, otherwise    *)
(* the name of the exception raised.                                       *)
(***************************************************************************)
EXTENDS Naturals, Sequences, FiniteSets, TLC

VARIABLES
    pc,                 \* position of the running script / call
    enum_df,            \* the DataFrame read from the CSV ([columns, rows])
    yaml_file,          \* the definitions document on disk
    definitions_dict,   \* the in-memory definitions document (EmptyDoc while unbound)
    todo,               \* enum names the merge loop has still to visit
    yaml_loads,         \* number of load_yaml calls of the current run
    writes,             \* number of write_yaml calls of the current run
    error,              \* the exception the run ended with ([exc, name])
    rerun,              \* TRUE once the script has been started a second time
    first_yaml,         \* what the previous run persisted (EmptyDoc before a rerun)
    arg,                \* argument of a direct call (check_null, pull_enum)
    result              \* outcome of a direct call

vars == <<pc, enum_df, yaml_file, definitions_dict, todo, yaml_loads, writes,
          error, rerun, first_yaml, arg, result>>

-----------------------------------------------------------------------------
(* Bounds *)

MaxRows == 2
MaxStrLen == 3
MaxCollLen == 1

-----------------------------------------------------------------------------
(* Python values *)

Str(s) == [kind |-> "str", val |-> s]
None == [kind |-> "None", val |-> <<>>]
NaN == [kind |-> "float", val |-> <<"nan">>]
Float(lit) == [kind |-> "float", val |-> <<lit>>]
Int(lit) == [kind |-> "int", val |-> <<lit>>]
Bool(lit) == [kind |-> "bool", val |-> <<lit>>]
Coll(k, n) == [kind |-> k, val |-> [i \in 1..n |-> "item"]]

Ok(v) == [exc |-> "none", val |-> v]
Raise(e) == [exc |-> e, val |-> <<>>]

isnan(value) == value.val = <<"nan">>

UpperChars == <<"A","B","C","D","E","F","G","H","I","J","K","L","M",
                "N","O","P","Q","R","S","T","U","V","W","X","Y","Z">>
LowerChars == <<"a","b","c","d","e","f","g","h","i","j","k","l","m",
                "n","o","p","q","r","s","t","u","v","w","x","y","z">>
WhitespaceChars == {" ", "\t", "\n", "\r", "\f"}

lower_char(c) ==
    IF \E i \in 1..Len(UpperChars) : UpperChars[i] = c
    THEN LowerChars[CHOOSE i \in 1..Len(UpperChars) : UpperChars[i] = c]
    ELSE c

lower(s) == [i \in 1..Len(s) |-> lower_char(s[i])]

RECURSIVE lstrip(_)
lstrip(s) ==
    IF s # <<>> /\ Head(s) \in WhitespaceChars THEN lstrip(Tail(s)) ELSE s

RECURSIVE rstrip(_)
rstrip(s) ==
    IF s # <<>> /\ s[Len(s)] \in WhitespaceChars
    THEN rstrip(SubSeq(s, 1, Len(s) - 1)) ELSE s

strip(s) == rstrip(lstrip(s))

null_strs ==
    { <<>>,
      <<"n","u","l","l">>,
      <<"n","o","n","e">>,
      <<"n","a","n">>,
      <<"n","/","a">>,
      <<"n","a">>,
      <<"n","o","t"," ","a","v","a","i","l","a","b","l","e">>,
      <<"n","o","t"," ","a","p","p","l","i","c","a","b","l","e">>,
      <<"m","i","s","s","i","n","g">> }

collection_kinds == {"list", "tuple", "set", "dict"}

\* check_null without the strip(): padded null words are no longer recognised
check_null_unstripped(value) ==
    IF value.kind = "None" THEN TRUE
    ELSE IF value.kind = "float" /\ isnan(value) THEN TRUE
    ELSE IF value.kind = "str" /\ lower(value.val) \in null_strs THEN TRUE
    ELSE IF value.kind \in collection_kinds /\ Len(value.val) = 0 THEN TRUE
    ELSE FALSE

check_null(value) ==
    IF value.kind = "None" THEN TRUE
    ELSE IF value.kind = "float" /\ isnan(value) THEN TRUE
    ELSE IF value.kind = "str" /\ lower(strip(value.val)) \in null_strs THEN TRUE
    ELSE IF value.kind \in collection_kinds /\ Len(value.val) = 0 THEN TRUE
    ELSE FALSE

-----------------------------------------------------------------------------
(* pandas: element-wise ==, row filter, column access *)

\* A missing cell (NaN, None) compares unequal to everything, itself included.
isna(v) == v.kind = "None" \/ (v.kind = "float" /\ isnan(v))

series_eq(cell, other) == ~isna(cell) /\ ~isna(other) /\ cell = other

DataFrame(cols, rows) == [columns |-> cols, rows |-> rows]

RECURSIVE filter_rows(_, _, _)
filter_rows(rows, col, value) ==
    IF rows = <<>> THEN <<>>
    ELSE IF series_eq(Head(rows)[col], value)
         THEN <<Head(rows)>> \o filter_rows(Tail(rows), col, value)
         ELSE filter_rows(Tail(rows), col, value)

unique(rows, col) == { rows[i][col] : i \in 1..Len(rows) }

-----------------------------------------------------------------------------
(* TabularEnumExtractor *)

\* pull_enum without the result_df.empty check: an absent type yields an empty frame
pull_enum_unchecked(df, enum_name) ==
    IF "type_name" \notin df.columns THEN Raise("KeyError")
    ELSE Ok(DataFrame(df.columns, filter_rows(df.rows, "type_name", enum_name)))

pull_enum(df, enum_name) ==
    IF "type_name" \notin df.columns THEN Raise("KeyError")
    ELSE LET result_rows == filter_rows(df.rows, "type_name", enum_name)
         IN  IF result_rows = <<>> THEN Raise("ValueError")
             ELSE Ok(DataFrame(df.columns, result_rows))

col_to_list(df, colname) ==
    IF colname \notin df.columns THEN Raise("KeyError")
    ELSE Ok([i \in 1..Len(df.rows) |-> df.rows[i][colname]])

\* get_enum_list reading the column of df instead of result_df
get_enum_list_unfiltered(df, enum_name) ==
    LET result_df == pull_enum(df, enum_name)
    IN  IF result_df.exc # "none" THEN Raise(result_df.exc)
        ELSE col_to_list(df, "enum")

get_enum_list(df, enum_name) ==
    LET result_df == pull_enum(df, enum_name)
    IN  IF result_df.exc # "none" THEN Raise(result_df.exc)
        ELSE col_to_list(result_df.val, "enum")

\* the getters with .iloc[-1]: the last matching row instead of the first
get_enum_field_last(df, enum_name, enum_term, colname) ==
    LET result_df == pull_enum(df, enum_name)
    IN  IF result_df.exc # "none" THEN Raise(result_df.exc)
        ELSE IF "enum" \notin df.columns THEN Raise("KeyError")
        ELSE LET filtered == filter_rows(result_df.val.rows, "enum", enum_term)
             IN  IF filtered = <<>> THEN Raise("IndexError")
                 ELSE IF colname \notin df.columns THEN Raise("KeyError")
                 ELSE Ok(filtered[Len(filtered)][colname])

get_enum_field(df, enum_name, enum_term, colname) ==
    LET result_df == pull_enum(df, enum_name)
    IN  IF result_df.exc # "none" THEN Raise(result_df.exc)
        ELSE IF "enum" \notin df.columns THEN Raise("KeyError")
        ELSE LET filtered == filter_rows(result_df.val.rows, "enum", enum_term)
             IN  IF filtered = <<>> THEN Raise("IndexError")
                 ELSE IF colname \notin df.columns THEN Raise("KeyError")
                 ELSE Ok(filtered[1][colname])

get_enum_definition(df, enum_name, enum_term) ==
    get_enum_field(df, enum_name, enum_term, "enum_definition")

get_enum_source(df, enum_name, enum_term) ==
    get_enum_field(df, enum_name, enum_term, "source")

get_enum_term_id(df, enum_name, enum_term) ==
    get_enum_field(df, enum_name, enum_term, "term_id")

-----------------------------------------------------------------------------
(* EnumEntryBuilder *)

\* the inclusion test written as "value is not None"
keeps_unless_None(got) == got.exc = "none" /\ got.val # None

\* The try: ... except Exception: of one optional field: the key is set only
\* when the getter returned and check_null of the value is false.
keeps(got) == got.exc = "none" /\ ~check_null(got.val)

enumdef_for(df, enum_name, enum_term) ==
    LET definition == get_enum_definition(df, enum_name, enum_term)
        source == get_enum_source(df, enum_name, enum_term)
        term_id == get_enum_term_id(df, enum_name, enum_term)
        keys == {"enumeration"}
                \cup (IF keeps(definition) THEN {"definition"} ELSE {})
                \cup (IF keeps(source) THEN {"source"} ELSE {})
                \cup (IF keeps(term_id) THEN {"term_id"} ELSE {})
    IN  [k \in keys |->
            CASE k = "enumeration" -> enum_term
              [] k = "definition" -> definition.val
              [] k = "source" -> source.val
              [] k = "term_id" -> term_id.val]

\* construct_enum_def looping over the distinct terms only
construct_enum_def_distinct(df, enum_name) ==
    LET enum_term_list == get_enum_list(df, enum_name)
    IN  IF enum_term_list.exc # "none" THEN Raise(enum_term_list.exc)
        ELSE LET terms == enum_term_list.val
                 firsts == { i \in 1..Len(terms) : \A j \in 1..(i - 1) : terms[j] # terms[i] }
             IN  Ok([k \in 1..Cardinality(firsts) |->
                       enumdef_for(df, enum_name,
                           terms[CHOOSE i \in firsts :
                                   Cardinality({ j \in firsts : j < i }) = k - 1])])

\* construct_enum_def without the try/except around the getters, as in
\* update_definitions_with_enums.py: a failed lookup propagates
construct_enum_def_unguarded(df, enum_name) ==
    LET enum_term_list == get_enum_list(df, enum_name)
    IN  IF enum_term_list.exc # "none" THEN Raise(enum_term_list.exc)
        ELSE IF \E i \in 1..Len(enum_term_list.val) :
                   get_enum_definition(df, enum_name, enum_term_list.val[i]).exc # "none"
             THEN Raise("IndexError")
             ELSE Ok([i \in 1..Len(enum_term_list.val) |->
                        enumdef_for(df, enum_name, enum_term_list.val[i])])

construct_enum_def(df, enum_name) ==
    LET enum_term_list == get_enum_list(df, enum_name)
    IN  IF enum_term_list.exc # "none" THEN Raise(enum_term_list.exc)
        ELSE Ok([i \in 1..Len(enum_term_list.val) |->
                    enumdef_for(df, enum_name, enum_term_list.val[i])])

construct_enum_term_yaml_entry(df, enum_name, description) ==
    LET enum_term_list == get_enum_list(df, enum_name)
    IN  IF enum_term_list.exc # "none" THEN Raise(enum_term_list.exc)
        ELSE LET enum_def_list == construct_enum_def(df, enum_name)
             IN  IF enum_def_list.exc # "none" THEN Raise(enum_def_list.exc)
                 ELSE Ok([description |-> description,
                          enum |-> enum_term_list.val,
                          enumDef |-> enum_def_list.val])

-----------------------------------------------------------------------------
(* Inputs: the CSV as pandas.read_csv returns it, and the YAML on disk *)

Color == Str(<<"C","o","l","o","r">>)
Size == Str(<<"S","i","z","e">>)
Shape == Str(<<"S","h","a","p","e">>)
RED == Str(<<"R","E","D">>)
BLUE == Str(<<"B","L","U","E">>)
EmptyStr == Str(<<>>)
RedColor == Str(<<"r","e","d"," ","c","o","l","o","r">>)
Src2 == Str(<<"s","r","c","2">>)
T1 == Str(<<"T","1">>)
YKey == Str(<<"Y">>)

required_columns == {"type_name", "enum", "enum_definition", "source", "term_id"}

TypeNames == {Color, Size, NaN}
Terms == {RED, BLUE, NaN}

\* (enum_definition, source, term_id) of a row; the first two are the rows of
\* the documented Color scenario.
Metadata == { <<RedColor, EmptyStr, T1>>, <<None, Src2, EmptyStr>>, <<NaN, NaN, NaN>> }

FullRows ==
    { [type_name |-> t, enum |-> e,
       enum_definition |-> m[1], source |-> m[2], term_id |-> m[3]] :
      t \in TypeNames, e \in Terms, m \in Metadata }

Project(row, cols) == [c \in cols |-> row[c]]

\* The two rows of the documented Color scenario.
ScenarioRows ==
    { [type_name |-> Color, enum |-> RED,
       enum_definition |-> RedColor, source |-> EmptyStr, term_id |-> T1],
      [type_name |-> Color, enum |-> BLUE,
       enum_definition |-> None, source |-> Src2, term_id |-> EmptyStr] }

Tables(rowset) == UNION { [1..n -> rowset] : n \in 0..MaxRows }

\* CSVs with every required column hold any rows; CSVs that lack one required
\* column hold scenario rows without that column.
DataFrames ==
    { DataFrame(required_columns, rows) : rows \in Tables(FullRows) }
    \cup UNION { { DataFrame(required_columns \ {c}, rows) :
                   rows \in Tables({ Project(r, required_columns \ {c}) :
                                     r \in ScenarioRows }) } :
                 c \in required_columns }

EmptyDoc == [k \in {} |-> None]

YValue == [type |-> Str(<<"s","t","r","i","n","g">>)]
OldColor == [description |-> Str(<<"o","l","d">>), enum |-> <<BLUE>>, enumDef |-> <<>>]

Documents ==
    { [k \in {YKey} |-> YValue],
      [k \in {YKey, Color} |-> IF k = YKey THEN YValue ELSE OldColor] }

NoError == [exc |-> "none", name |-> None]
NoCall == [exc |-> "none", val |-> <<>>]

-----------------------------------------------------------------------------
(* DefinitionsMerger: process_enums, step by step *)

\* assignment that keeps the value of a key already present (setdefault)
setitem_setdefault(d, key, value) ==
    [k \in DOMAIN d \cup {key} |-> IF k \in DOMAIN d THEN d[k] ELSE value]

\* assignment that appends the new terms to the entry already present
setitem_extend(d, key, value) ==
    [k \in DOMAIN d \cup {key} |->
        IF k # key THEN d[k]
        ELSE IF key \in DOMAIN d
             THEN [value EXCEPT !.enum = d[key].enum \o value.enum]
             ELSE value]

setitem(d, key, value) ==
    [k \in DOMAIN d \cup {key} |-> IF k = key THEN value ELSE d[k]]

\* the set difference taken the wrong way round: only extra columns are reported
validate_csv_columns_reversed(df, required) ==
    LET missing_columns == df.columns \ required
    IN  IF missing_columns # {} THEN Raise("ValueError") ELSE Ok(<<>>)

validate_csv_columns(df, required) ==
    LET missing_columns == required \ df.columns
    IN  IF missing_columns # {} THEN Raise("ValueError") ELSE Ok(<<>>)

Init ==
    /\ pc = "start"
    /\ enum_df \in DataFrames
    /\ yaml_file \in Documents
    /\ definitions_dict = EmptyDoc
    /\ todo = {}
    /\ yaml_loads = 0
    /\ writes = 0
    /\ error = NoError
    /\ rerun = FALSE
    /\ first_yaml = EmptyDoc
    /\ arg = None
    /\ result = NoCall

Fail(exc, name) ==
    /\ pc' = "failed"
    /\ error' = [exc |-> exc, name |-> name]

\* validate_file_exists twice, then pandas.read_csv
ReadCsv ==
    /\ pc = "start"
    /\ \E exists \in BOOLEAN :
         IF exists THEN pc' = "validate" /\ UNCHANGED error
         ELSE Fail("FileNotFoundError", None)
    /\ UNCHANGED <<enum_df, yaml_file, definitions_dict, todo, yaml_loads,
                   writes, rerun, first_yaml, arg, result>>

ValidateCsv ==
    /\ pc = "validate"
    /\ LET v == validate_csv_columns(enum_df, required_columns)
       IN  IF v.exc # "none" THEN Fail(v.exc, None)
           ELSE pc' = "load" /\ UNCHANGED error
    /\ UNCHANGED <<enum_df, yaml_file, definitions_dict, todo, yaml_loads,
                   writes, rerun, first_yaml, arg, result>>

\* enum_df['type_name'].unique().tolist(), then load_yaml
LoadYaml ==
    /\ pc = "load"
    /\ IF "type_name" \notin enum_df.columns
       THEN /\ Fail("KeyError", None)
            /\ UNCHANGED <<todo, definitions_dict, yaml_loads>>
       ELSE /\ todo' = unique(enum_df.rows, "type_name")
            /\ definitions_dict' = yaml_file
            /\ yaml_loads' = yaml_loads + 1
            /\ pc' = "loop"
            /\ UNCHANGED error
    /\ UNCHANGED <<enum_df, yaml_file, writes, rerun, first_yaml, arg, result>>

\* the loop body with "continue" in place of "raise"
ProcessEnum_continue ==
    /\ pc = "loop"
    /\ \E enum_name \in todo :
         LET entry == construct_enum_term_yaml_entry(enum_df, enum_name, None)
         IN  /\ definitions_dict' =
                    IF entry.exc # "none" THEN definitions_dict
                    ELSE setitem(definitions_dict, enum_name, entry.val)
             /\ todo' = todo \ {enum_name}
             /\ UNCHANGED <<pc, error>>
    /\ UNCHANGED <<enum_df, yaml_file, yaml_loads, writes, rerun, first_yaml,
                   arg, result>>

\* one iteration of: for enum_name in set(enum_to_pull_list)
ProcessEnum ==
    /\ pc = "loop"
    /\ \E enum_name \in todo :
         LET entry == construct_enum_term_yaml_entry(enum_df, enum_name, None)
         IN  IF entry.exc # "none"
             THEN /\ Fail(entry.exc, enum_name)
                  /\ UNCHANGED <<definitions_dict, todo>>
             ELSE /\ definitions_dict' = setitem(definitions_dict, enum_name, entry.val)
                  /\ todo' = todo \ {enum_name}
                  /\ UNCHANGED <<pc, error>>
    /\ UNCHANGED <<enum_df, yaml_file, yaml_loads, writes, rerun, first_yaml,
                   arg, result>>

WriteYaml ==
    /\ pc = "loop"
    /\ todo = {}
    /\ yaml_file' = definitions_dict
    /\ writes' = writes + 1
    /\ pc' = "done"
    /\ UNCHANGED <<enum_df, definitions_dict, todo, yaml_loads, error, rerun,
                   first_yaml, arg, result>>

\* the script is started again on the same CSV and the YAML it has written
Rerun ==
    /\ pc = "done"
    /\ ~rerun
    /\ rerun' = TRUE
    /\ first_yaml' = yaml_file
    /\ pc' = "start"
    /\ definitions_dict' = EmptyDoc
    /\ yaml_loads' = 0
    /\ writes' = 0
    /\ UNCHANGED <<enum_df, yaml_file, todo, error, arg, result>>

Next == ReadCsv \/ ValidateCsv \/ LoadYaml \/ ProcessEnum \/ WriteYaml \/ Rerun

Spec == Init /\ [][Next]_vars

-----------------------------------------------------------------------------
(* Direct calls of check_null on every kind of value *)

NullChars == {" ", "\t", "n", "N", "a", "A", "/", "0"}

SampleStrs ==
    { <<"N","u","l","l">>,
      <<" ","n","O","n","E","\n">>,
      <<"N","o","t"," ","A","v","a","i","l","a","b","l","e">>,
      <<"\t","n","o","t"," ","a","p","p","l","i","c","a","b","l","e"," ">>,
      <<"M","I","S","S","I","N","G">>,
      <<"n","u","l","l","s">>,
      <<"n","o","t","a","v","a","i","l","a","b","l","e">>,
      <<"m","i","s","s","i","n","g"," ","x">>,
      <<"r","e","d">> }

Values ==
    { Str(s) : s \in UNION { [1..n -> NullChars] : n \in 0..MaxStrLen } \cup SampleStrs }
    \cup { None, NaN, Float("0.0"), Float("1.5"), Float("inf"),
           Int("0"), Int("1"), Bool("False"), Bool("True") }
    \cup { Coll(k, n) : k \in collection_kinds \cup {"frozenset", "bytes"},
                        n \in 0..MaxCollLen }

InitNull ==
    /\ pc = "call"
    /\ arg \in Values
    /\ result = NoCall
    /\ enum_df = DataFrame(required_columns, <<>>)
    /\ yaml_file = EmptyDoc
    /\ definitions_dict = EmptyDoc
    /\ todo = {}
    /\ yaml_loads = 0
    /\ writes = 0
    /\ error = NoError
    /\ rerun = FALSE
    /\ first_yaml = EmptyDoc

CallCheckNull ==
    /\ pc = "call"
    /\ result' = Ok(check_null(arg))
    /\ pc' = "returned"
    /\ UNCHANGED <<enum_df, yaml_file, definitions_dict, todo, yaml_loads,
                   writes, error, rerun, first_yaml, arg>>

SpecNull == InitNull /\ [][CallCheckNull]_vars

-----------------------------------------------------------------------------
(* C5 *)

NullVocabulary ==
    { <<>>, <<"n","u","l","l">>, <<"n","o","n","e">>, <<"n","a","n">>,
      <<"n","/","a">>, <<"n","a">>,
      <<"n","o","t"," ","a","v","a","i","l","a","b","l","e">>,
      <<"n","o","t"," ","a","p","p","l","i","c","a","b","l","e">>,
      <<"m","i","s","s","i","n","g">> }

SameLetter(c, d) ==
    c = d \/ \E k \in 1..Len(UpperChars) : {c, d} = {UpperChars[k], LowerChars[k]}

\* s is word, in any letter case, between two runs of whitespace
IsPaddedWord(s, word) ==
    \E i \in 0..Len(s) :
        /\ i + Len(word) <= Len(s)
        /\ \A k \in 1..i : s[k] \in WhitespaceChars
        /\ \A k \in 1..Len(word) : SameLetter(s[i + k], word[k])
        /\ \A k \in (i + Len(word) + 1)..Len(s) : s[k] \in WhitespaceChars

IsNullValue(value) ==
    \/ value = None
    \/ value = NaN
    \/ value.kind = "str" /\ \E word \in NullVocabulary : IsPaddedWord(value.val, word)
    \/ value.kind \in {"list", "tuple", "set", "dict"} /\ value.val = <<>>

\* C5: check_null returns, without raising, true exactly for None, NaN, a
\* string that is a null word up to surrounding whitespace and letter case,
\* and an empty list, tuple, set or dict; false for everything else.
C5_CheckNullExact ==
    pc = "returned" =>
        /\ result.exc = "none"
        /\ result.val = IsNullValue(arg)
        /\ arg \in {Int("0"), Bool("False"), Str(<<"0">>), Coll("list", 1)}
              => result.val = FALSE

C5_Witness ==
    /\ pc = "returned"
    /\ arg = Str(<<" ", "N", "a">>)
    /\ result.val = TRUE

-----------------------------------------------------------------------------
(* Direct calls of pull_enum, for names present in and absent from the table *)

InitExtract ==
    /\ pc = "call"
    /\ enum_df \in { DataFrame(required_columns, rows) : rows \in Tables(FullRows) }
    /\ arg \in TypeNames \cup {Shape}
    /\ result = NoCall
    /\ yaml_file = EmptyDoc
    /\ definitions_dict = EmptyDoc
    /\ todo = {}
    /\ yaml_loads = 0
    /\ writes = 0
    /\ error = NoError
    /\ rerun = FALSE
    /\ first_yaml = EmptyDoc

CallPullEnum ==
    /\ pc = "call"
    /\ result' = pull_enum(enum_df, arg)
    /\ pc' = "returned"
    /\ UNCHANGED <<enum_df, yaml_file, definitions_dict, todo, yaml_loads,
                   writes, error, rerun, first_yaml, arg>>

SpecExtract == InitExtract /\ [][CallPullEnum]_vars

-----------------------------------------------------------------------------
(* C6 *)

\* Indices of the rows whose type_name is the (non-missing) name asked for.
RowsOfType(rows, name) ==
    { i \in 1..Len(rows) : name \notin {NaN, None} /\ rows[i]["type_name"] = name }

\* The k-th smallest element of a set of indices.
Kth(indices, k) ==
    CHOOSE i \in indices : Cardinality({ j \in indices : j < i }) = k - 1

\* C6: pull_enum raises (ValueError, the NotFound of the table) when no row has
\* the type_name asked for, an empty table included; otherwise it returns
\* exactly the rows of that type_name in table order; the table is unchanged.
C6_RowsForType ==
    [][ pc' = "returned" =>
          LET m == RowsOfType(enum_df.rows, arg)
          IN  /\ enum_df' = enum_df
              /\ m = {} => result'.exc = "ValueError"
              /\ m # {} =>
                   /\ result'.exc = "none"
                   /\ result'.val.columns = enum_df.columns
                   /\ Len(result'.val.rows) = Cardinality(m)
                   /\ \A k \in 1..Cardinality(m) :
                        result'.val.rows[k] = enum_df.rows[Kth(m, k)] ]_vars

\* Shape is asked for in a table whose rows are all Color or Size
C6_WitnessAbsent ==
    /\ pc = "returned"
    /\ arg = Shape
    /\ Len(enum_df.rows) = MaxRows
    /\ result.exc = "ValueError"

-----------------------------------------------------------------------------
(* Vocabulary of the pipeline claims *)

DiscoveredTypes == { enum_df.rows[i]["type_name"] : i \in 1..Len(enum_df.rows) }

\* Keys the merge loop of the current run has assigned so far.
Assigned == IF yaml_loads = 1 THEN DiscoveredTypes \ todo ELSE {}

\* The merge loop has run to its end and the document is not yet written.
MergeCompleted == pc = "loop" /\ todo = {}

\* The term of the k-th row of type X, in table order.
TermOfRow(X, k) == enum_df.rows[Kth(RowsOfType(enum_df.rows, X), k)]["enum"]

\* Indices of the rows of type X whose enum is the (non-missing) term.
RowsOfTerm(X, term) ==
    { i \in RowsOfType(enum_df.rows, X) :
        term \notin {NaN, None} /\ enum_df.rows[i]["enum"] = term }

FirstRowOfTerm(X, term) ==
    CHOOSE i \in RowsOfTerm(X, term) : \A j \in RowsOfTerm(X, term) : i <= j

OptionalFields ==
    { <<"definition", "enum_definition">>, <<"source", "source">>, <<"term_id", "term_id">> }

-----------------------------------------------------------------------------
(* C1 *)

\* C1: when the merge loop has completed, the keys of the document are the
\* loaded keys and the distinct type_name values of the table; a key that is
\* no type_name keeps its loaded value; a key that is a type_name holds the
\* entry built from the table with description None, whatever it held before.
C1_MergeFrame ==
    MergeCompleted =>
        /\ DOMAIN definitions_dict = DOMAIN yaml_file \cup DiscoveredTypes
        /\ \A k \in DOMAIN yaml_file \ DiscoveredTypes :
             definitions_dict[k] = yaml_file[k]
        /\ \A X \in DiscoveredTypes :
             LET entry == construct_enum_term_yaml_entry(enum_df, X, None)
             IN  /\ entry.exc = "none"
                 /\ definitions_dict[X] = entry.val
                 /\ definitions_dict[X].description = None

\* Color is overwritten, Size inserted, Y kept
C1_Witness ==
    /\ MergeCompleted
    /\ ~rerun
    /\ DiscoveredTypes = {Color, Size}
    /\ Color \in DOMAIN yaml_file
    /\ yaml_file[Color] = OldColor
    /\ definitions_dict[Color] # OldColor
    /\ definitions_dict[YKey] = YValue

-----------------------------------------------------------------------------
(* C2 *)

\* C2: a run writes the document at most once, and only when the loop has
\* assigned the entry of every discovered type; a step that fails writes
\* nothing and changes neither the file nor the document nor the types left,
\* a failed run takes no further step, and the file changes only by the write.
C2_PersistOnceAfterAll ==
    [][ /\ pc # "failed"
        /\ writes' <= 1
        /\ writes' > writes =>
             /\ todo = {}
             /\ pc' = "done"
             /\ \A X \in DiscoveredTypes :
                  /\ X \in DOMAIN yaml_file'
                  /\ construct_enum_term_yaml_entry(enum_df, X, None).exc = "none"
                  /\ yaml_file'[X] = construct_enum_term_yaml_entry(enum_df, X, None).val
        /\ pc' = "failed" =>
             /\ writes' = 0
             /\ yaml_file' = yaml_file
             /\ definitions_dict' = definitions_dict
             /\ todo' = todo
        /\ pc' = "done" => writes' = 1
        /\ yaml_file' # yaml_file => writes' = writes + 1 ]_vars

\* a build failed after an earlier type had been merged in memory
C2_WitnessAborted ==
    /\ pc = "failed"
    /\ yaml_loads = 1
    /\ writes = 0
    /\ Color \in Assigned
    /\ definitions_dict # yaml_file

-----------------------------------------------------------------------------
(* C3 *)

\* C3: in every entry the loop has assigned, enum and enumDef have the same
\* length and enumDef[i].enumeration is enum[i], repeated terms included.
C3_EnumDefAligned ==
    \A X \in Assigned :
        LET entry == definitions_dict[X]
        IN  /\ Len(entry.enumDef) = Len(entry.enum)
            /\ \A i \in 1..Len(entry.enum) :
                 /\ "enumeration" \in DOMAIN entry.enumDef[i]
                 /\ entry.enumDef[i]["enumeration"] = entry.enum[i]

C3_WitnessDuplicate ==
    /\ Color \in Assigned
    /\ definitions_dict[Color].enum = <<RED, RED>>
    /\ Len(definitions_dict[Color].enumDef) = Len(definitions_dict[Color].enum)

-----------------------------------------------------------------------------
(* C4 *)

\* C4: a term record always has enumeration, and has definition, source or
\* term_id exactly when a row of the type carries the term and the first such
\* row's enum_definition, source or term_id is not null; the key then holds
\* that value.
C4_NoNullFields ==
    \A X \in Assigned :
        LET entry == definitions_dict[X]
        IN  \A i \in 1..Len(entry.enumDef) :
              LET rec == entry.enumDef[i]
                  term == TermOfRow(X, i)
                  found == RowsOfTerm(X, term) # {}
              IN  /\ "enumeration" \in DOMAIN rec
                  /\ DOMAIN rec \subseteq
                       {"enumeration"} \cup { f[1] : f \in OptionalFields }
                  /\ \A f \in OptionalFields :
                       /\ f[1] \in DOMAIN rec <=>
                            /\ found
                            /\ ~IsNullValue(enum_df.rows[FirstRowOfTerm(X, term)][f[2]])
                       /\ f[1] \in DOMAIN rec =>
                            rec[f[1]] = enum_df.rows[FirstRowOfTerm(X, term)][f[2]]

\* the documented Color scenario: source "" and term_id "" and definition None
\* leave no key
C4_WitnessScenario ==
    /\ Color \in Assigned
    /\ enum_df.rows =
         << [type_name |-> Color, enum |-> RED,
             enum_definition |-> RedColor, source |-> EmptyStr, term_id |-> T1],
            [type_name |-> Color, enum |-> BLUE,
             enum_definition |-> None, source |-> Src2, term_id |-> EmptyStr] >>
    /\ definitions_dict[Color].enumDef =
         << [enumeration |-> RED, definition |-> RedColor, term_id |-> T1],
            [enumeration |-> BLUE, source |-> Src2] >>

-----------------------------------------------------------------------------
(* C7 *)

\* C7: the enum list of an assigned entry is the enum column of the rows of
\* that type in table order: one element per row, repeats kept, unsorted.
C7_TermListInRowOrder ==
    \A X \in Assigned :
        LET m == RowsOfType(enum_df.rows, X)
            terms == definitions_dict[X].enum
        IN  /\ Len(terms) = Cardinality(m)
            /\ \A k \in 1..Len(terms) : terms[k] = enum_df.rows[Kth(m, k)]["enum"]

\* the Size row that comes first adds nothing to the terms of Color
C7_WitnessOtherType ==
    /\ Color \in Assigned
    /\ enum_df.rows[1]["type_name"] = Size
    /\ enum_df.rows[1]["enum"] = BLUE
    /\ definitions_dict[Color].enum = <<RED>>

-----------------------------------------------------------------------------
(* C8 *)

\* C8: a second run on the same table and on the document the first run wrote
\* assigns to every type the entry the first run wrote for it, in whatever
\* order the types are visited and whatever the key held before the first
\* run, and writes the same document again.
C8_MergeIdempotent ==
    rerun =>
        /\ \A X \in Assigned :
             /\ X \in DOMAIN first_yaml
             /\ definitions_dict[X] = first_yaml[X]
        /\ pc = "done" => yaml_file = first_yaml

C8_WitnessSecondRun ==
    /\ rerun
    /\ pc = "done"
    /\ DiscoveredTypes = {Color, Size}
    /\ yaml_file = first_yaml
    /\ yaml_file[Color].enum = <<RED>>

-----------------------------------------------------------------------------
(* C9 *)

\* C9: with a required column missing the run gets no further than the column
\* validation, which raises ValueError: load_yaml is not called, no key is
\* assigned, nothing is written.
C9_ValidationFirst ==
    required_columns \ enum_df.columns # {} =>
        /\ pc \in {"start", "validate", "failed"}
        /\ pc = "failed" => error.exc \in {"ValueError", "FileNotFoundError"}
        /\ yaml_loads = 0
        /\ definitions_dict = EmptyDoc
        /\ todo = {}
        /\ writes = 0
        /\ yaml_file \in Documents

C9_WitnessMissingSource ==
    /\ pc = "failed"
    /\ error.exc = "ValueError"
    /\ "source" \notin enum_df.columns
    /\ Len(enum_df.rows) = MaxRows
    /\ yaml_loads = 0

-----------------------------------------------------------------------------
(* C10 *)

\* C10: a term whose lookups fail (no row matches it) gets a record with
\* enumeration alone, every row of the type still gets its record, a record
\* whose lookups succeed keeps each non-null field, and a failure of the loop
\* is the ValueError of a type that has no rows.
C10_LookupFailureSwallowed ==
    /\ \A X \in Assigned :
         LET entry == definitions_dict[X]
             m == RowsOfType(enum_df.rows, X)
         IN  /\ Len(entry.enumDef) = Cardinality(m)
             /\ \A i \in 1..Len(entry.enumDef) :
                  IF RowsOfTerm(X, TermOfRow(X, i)) = {}
                  THEN entry.enumDef[i] = [enumeration |-> TermOfRow(X, i)]
                  ELSE \A f \in OptionalFields :
                         LET v == enum_df.rows[FirstRowOfTerm(X, TermOfRow(X, i))][f[2]]
                         IN  ~IsNullValue(v) =>
                               /\ f[1] \in DOMAIN entry.enumDef[i]
                               /\ entry.enumDef[i][f[1]] = v
    /\ (pc = "failed" /\ yaml_loads = 1) =>
         /\ error.exc = "ValueError"
         /\ RowsOfType(enum_df.rows, error.name) = {}

\* the second Color row has no term: its record is bare, the first is complete
C10_WitnessMissingTerm ==
    /\ Color \in Assigned
    /\ Len(enum_df.rows) = 2
    /\ enum_df.rows[2]["enum"] = NaN
    /\ enum_df.rows[2]["source"] = Src2
    /\ definitions_dict[Color].enumDef =
         << [enumeration |-> RED, definition |-> RedColor, term_id |-> T1],
            [enumeration |-> NaN] >>

-----------------------------------------------------------------------------
(* Direct calls of the getters and of construct_enum_def *)

\* Color may be in the table, Shape never is, NaN is a missing name
LookupNames == {Color, Shape, NaN}
LookupTerms == {RED, NaN}

InitLookup ==
    /\ pc = "call"
    /\ enum_df \in { DataFrame(required_columns, rows) : rows \in Tables(FullRows) }
    /\ arg \in [name : LookupNames, term : LookupTerms]
    /\ result = NoCall
    /\ yaml_file = EmptyDoc
    /\ definitions_dict = EmptyDoc
    /\ todo = {}
    /\ yaml_loads = 0
    /\ writes = 0
    /\ error = NoError
    /\ rerun = FALSE
    /\ first_yaml = EmptyDoc

Returned(from, value) ==
    /\ pc = "call"
    /\ result' = value
    /\ pc' = from
    /\ UNCHANGED <<enum_df, yaml_file, definitions_dict, todo, yaml_loads,
                   writes, error, rerun, first_yaml, arg>>

CallGetEnumDefinition ==
    Returned("get_enum_definition", get_enum_definition(enum_df, arg.name, arg.term))

CallGetEnumSource ==
    Returned("get_enum_source", get_enum_source(enum_df, arg.name, arg.term))

CallGetEnumTermId ==
    Returned("get_enum_term_id", get_enum_term_id(enum_df, arg.name, arg.term))

CallConstructEnumDef ==
    Returned("construct_enum_def", construct_enum_def(enum_df, arg.name))

NextLookup ==
    CallGetEnumDefinition \/ CallGetEnumSource \/ CallGetEnumTermId
    \/ CallConstructEnumDef

SpecLookup == InitLookup /\ [][NextLookup]_vars

-----------------------------------------------------------------------------
(* C11 *)

GetterColumn ==
    [get_enum_definition |-> "enum_definition",
     get_enum_source |-> "source",
     get_enum_term_id |-> "term_id"]

\* C11: a getter returns its column of the first row, in table order, whose
\* type_name and enum are the ones asked for, and raises (ValueError without
\* a row of the type, IndexError without a row of the term) when there is
\* none; so in the list construct_enum_def builds, the record of every row
\* of a (type_name, enum) pair is the record of the pair's first row, and a
\* value that only a later row of the pair carries is in no field of it.
C11_FirstMatchOnly ==
    /\ pc \in DOMAIN GetterColumn =>
         LET m == RowsOfTerm(arg.name, arg.term)
         IN  /\ m = {} =>
                  result.exc = IF RowsOfType(enum_df.rows, arg.name) = {}
                               THEN "ValueError" ELSE "IndexError"
             /\ m # {} =>
                  /\ result.exc = "none"
                  /\ result.val =
                       enum_df.rows[FirstRowOfTerm(arg.name, arg.term)][GetterColumn[pc]]
    /\ (pc = "construct_enum_def" /\ result.exc = "none") =>
         LET t == RowsOfType(enum_df.rows, arg.name)
         IN  \A k \in 1..Len(result.val) :
               LET i == Kth(t, k)
                   m == RowsOfTerm(arg.name, enum_df.rows[i]["enum"])
               IN  m # {} =>
                     LET first == FirstRowOfTerm(arg.name, enum_df.rows[i]["enum"])
                     IN  /\ result.val[k] = result.val[Cardinality({ j \in t : j <= first })]
                         /\ \A f \in OptionalFields :
                              /\ f[1] \in DOMAIN result.val[k] =>
                                   result.val[k][f[1]] = enum_df.rows[first][f[2]]
                              /\ \A j \in m :
                                   enum_df.rows[j][f[2]] # enum_df.rows[first][f[2]] =>
                                     ~ /\ f[1] \in DOMAIN result.val[k]
                                       /\ result.val[k][f[1]] = enum_df.rows[j][f[2]]

\* (Color, RED) twice with differing metadata: both records are the first
\* row's, and the second row's source src2 is in neither
C11_WitnessDuplicatePair ==
    /\ pc = "construct_enum_def"
    /\ arg.name = Color
    /\ enum_df.rows =
         << [type_name |-> Color, enum |-> RED,
             enum_definition |-> RedColor, source |-> EmptyStr, term_id |-> T1],
            [type_name |-> Color, enum |-> RED,
             enum_definition |-> None, source |-> Src2, term_id |-> EmptyStr] >>
    /\ result.val =
         << [enumeration |-> RED, definition |-> RedColor, term_id |-> T1],
            [enumeration |-> RED, definition |-> RedColor, term_id |-> T1] >>

-----------------------------------------------------------------------------
(* C12 *)

\* C12: with every required column in the table, each type name the loop has
\* discovered has a row that pull_enum matches, so the loop never ends in an
\* exception and the written document has every discovered type as a key,
\* also when a row's type_name is missing.
C12_DiscoveredTypesHaveRows ==
    required_columns \subseteq enum_df.columns =>
        /\ yaml_loads = 1 => pc # "failed"
        /\ yaml_loads = 1 =>
             \A X \in DiscoveredTypes : pull_enum(enum_df, X).exc = "none"
        /\ pc = "done" => DiscoveredTypes \subseteq DOMAIN yaml_file

====
